---- MODULE Spec2Model ----
(***************************************************************************)
(* Model of Cantera/python/Cantera/Func.py: the Python shadow classes for  *)
(* functions of one variable (Func1 and its subclasses) over the _cantera  *)
(* kernel.  The state is the Python heap of Func1 instances, the           *)
(* references the caller holds, and the kernel's table of function         *)
(* handles; every method of the module is one action.                      *)
(***************************************************************************)
EXTENDS Integers, Sequences, FiniteSets, TLC

\* ------------------------------------------------------------------ bounds
MaxLen == 1       \* longest coefficient list given to Polynomial
MaxTerms == 2     \* longest term list given to Fourier / Arrhenius
MaxWidth == 3     \* widest term tuple given to Fourier / Arrhenius
MaxHandles == 3   \* handles the kernel issues in one run
MaxLeaves == 1    \* leaves the caller constructs directly in one run
MaxDel == 1       \* explicit __del__ calls the caller makes per handle

\* ------------------------------------------------------------- sentinels
NoId == 0         \* no object (a constructor that raised returns nothing)
NoHandle == 0     \* the attribute _func_id is not set
NoArity == 0 - 2  \* the attribute n is not set

\* ---------------------------------------------------------- Python values
\* A Python value in operand position: a float, an int or a Func1 instance.
PyInt(v) == [kind |-> "int", v |-> v]
PyFloat(v) == [kind |-> "float", v |-> v]
PyFunc(o) == [kind |-> "func", v |-> o]
NoValue == [kind |-> "none", v |-> 0]

\* Scalars offered as operands and as coefficients.
Scalars == {PyInt(1), PyFloat(2)}
\* Angular frequencies offered to Fourier.
Omegas == {PyInt(9)}
\* Arguments offered to __call__.
Times == {PyFloat(1)}

\* type(other) == types.FloatType
IsFloatType(x) == x.kind = "float"

\* Conversion of one number to typecode 'd'.
ToDouble(x) == PyFloat(x.v)

\* asarray(coeffs, 'd') on a flat sequence of numbers.
asarray1(coeffs) == [i \in DOMAIN coeffs |-> ToDouble(coeffs[i])]

\* asarray(c, 'd') on a sequence of term tuples: a rectangular list becomes
\* an array of shape (n, m); the empty list has shape (0,); Numeric rejects
\* a ragged list.
asarray2(c) ==
    IF c = <<>> THEN [err |-> FALSE, shape |-> <<0>>, rows |-> <<>>]
    ELSE IF \E i \in DOMAIN c : Len(c[i]) # Len(c[1])
    THEN [err |-> TRUE, shape |-> <<>>, rows |-> <<>>]
    ELSE [err |-> FALSE, shape |-> <<Len(c), Len(c[1])>>,
          rows |-> [i \in DOMAIN c |-> asarray1(c[i])]]

\* transpose(cc) of an (n, m) array given by its rows.
transpose(rows) ==
    IF rows = <<>> THEN <<>>
    ELSE [j \in 1..Len(rows[1]) |-> [i \in 1..Len(rows) |-> rows[i][j]]]

\* ravel(cc): the rows one after the other.
RECURSIVE ravel(_)
ravel(rows) == IF rows = <<>> THEN <<>> ELSE rows[1] \o ravel(Tail(rows))

\* ----------------------------------------------------------------- state
VARIABLES
    heap,      \* Python instances: id -> [cls, n, coeffs, f1, f2, func_id]
    held,      \* ids of the instances the caller holds a reference to
    created,   \* kernel: handle -> the creation call that issued it
    delCount,  \* kernel: handle -> number of func_del calls it received
    calls,     \* kernel calls made by the latest operation, in order
    last       \* the latest operation: its inputs, outcome and result

vars == <<heap, held, created, delCount, calls, last>>

Handles == 1..Len(created)

NoCall == [fn |-> "none", typ |-> 0, n |-> 0, coeffs |-> <<>>,
           a |-> NoHandle, b |-> NoHandle, h |-> NoHandle]

NoOp == [op |-> "none", self |-> NoId, other |-> NoValue, coeffs |-> <<>>,
         omega |-> NoValue, c |-> <<>>, t |-> NoValue,
         status |-> "ok", ret |-> NoId]

\* The interpreter's working state while one operation runs: the heap and
\* the kernel, the calls made so far, the exception raised (if any), the
\* value returned by the latest kernel call (h) or constructor (ret).
World == [heap |-> heap, created |-> created, delCount |-> delCount,
          calls |-> <<>>, exc |-> "none", h |-> NoHandle, ret |-> NoId]

Raise(w, e) == [w EXCEPT !.exc = e, !.ret = NoId]

\* ---------------------------------------------------------------- kernel
\* _cantera.func_new(typ, n, coeffs): a new handle, or an error.
func_new(w, typ, n, coeffs, ok) ==
    LET hh == Len(w.created) + 1
        call == [fn |-> "func_new", typ |-> typ, n |-> n, coeffs |-> coeffs,
                 a |-> NoHandle, b |-> NoHandle, h |-> IF ok THEN hh ELSE NoHandle]
    IN IF ok
       THEN [w EXCEPT !.created = Append(@, call), !.delCount = Append(@, 0),
                      !.calls = Append(@, call), !.h = hh]
       ELSE [Raise(w, "EngineFailure") EXCEPT !.calls = Append(@, call)]

\* _cantera.func_newcombo(typ, a, b): a new handle, or an error.
func_newcombo(w, typ, a, b, ok) ==
    LET hh == Len(w.created) + 1
        call == [fn |-> "func_newcombo", typ |-> typ, n |-> 0, coeffs |-> <<>>,
                 a |-> a, b |-> b, h |-> IF ok THEN hh ELSE NoHandle]
    IN IF ok
       THEN [w EXCEPT !.created = Append(@, call), !.delCount = Append(@, 0),
                      !.calls = Append(@, call), !.h = hh]
       ELSE [Raise(w, "EngineFailure") EXCEPT !.calls = Append(@, call)]

\* _cantera.func_del(h)
func_del(w, hh) ==
    LET call == [NoCall EXCEPT !.fn = "func_del", !.a = hh]
    IN [w EXCEPT !.delCount[hh] = @ + 1, !.calls = Append(@, call)]

\* _cantera.func_value(h, t): the value, or an error.
func_value(w, hh, ok) ==
    LET call == [NoCall EXCEPT !.fn = "func_value", !.a = hh]
    IN IF ok THEN [w EXCEPT !.calls = Append(@, call)]
       ELSE [Raise(w, "EngineFailure") EXCEPT !.calls = Append(@, call)]

\* ------------------------------------------------------------ instances
Leaves == {"Polynomial", "Fourier", "Arrhenius"}
Combinators == {"SumFunction", "ProdFunction", "RatioFunction"}

\* The identity of a newly allocated instance.
NewId(hp) == CHOOSE i \in 1..(Cardinality(DOMAIN hp) + 1) :
                /\ i \notin DOMAIN hp
                /\ \A j \in 1..(i - 1) : j \in DOMAIN hp

\* Instance creation before __init__ runs: no attribute is set.
Allocate(w, cls) ==
    [w EXCEPT !.heap = @ @@ (NewId(w.heap) :>
         [cls |-> cls, n |-> NoArity, coeffs |-> <<>>, f1 |-> NoValue,
          f2 |-> NoValue, func_id |-> NoHandle]),
       !.ret = NewId(w.heap)]

\* Func1.__init__(self, typ, n, coeffs)
Func1__init__(w, self, typ, n, coeffs, ok) ==
    LET w1 == [w EXCEPT !.heap[self].n = n,
                        !.heap[self].coeffs = asarray1(coeffs)]
        w2 == func_new(w1, typ, n, w1.heap[self].coeffs, ok)
    IN IF w2.exc # "none" THEN w2
       ELSE [w2 EXCEPT !.heap[self].func_id = w2.h, !.ret = self]

\* Func1.__del__(self)
Func1__del__(w, self) ==
    IF w.heap[self].func_id = NoHandle THEN Raise(w, "AttributeError")
    ELSE func_del(w, w.heap[self].func_id)

\* Func1.__call__(self, t)
Func1__call__(w, self, t, ok) == func_value(w, w.heap[self].func_id, ok)

\* Polynomial.__init__(self, coeffs)
Polynomial__init__(w, self, coeffs, ok) ==
    Func1__init__(w, self, 2, Len(coeffs) - 1, coeffs, ok)

\* Polynomial(coeffs)
Polynomial(w, coeffs, ok) ==
    LET w1 == Allocate(w, "Polynomial")
    IN Polynomial__init__(w1, w1.ret, coeffs, ok)

\* Const(value)
Const(w, value, ok) == Polynomial(w, <<value>>, ok)

\* Fourier.__init__ flattening the array row by row, without transposing it.
Fourier__init__RowMajor(w, self, omega, c, ok) ==
    LET cc == asarray2(c)
    IN IF cc.err THEN Raise(w, "NumericError")
       ELSE IF Len(cc.shape) # 2 THEN Raise(w, "ValueError")
       ELSE IF cc.shape[2] # 2 THEN Raise(w, "NameError")
       ELSE LET cc1 == [cc.rows EXCEPT ![1][2] = ToDouble(omega)]
            IN Func1__init__(w, self, 1, cc.shape[1] - 1, ravel(cc1), ok)

\* Fourier.__init__(self, omega, c)
Fourier__init__(w, self, omega, c, ok) ==
    LET cc == asarray2(c)
    IN IF cc.err THEN Raise(w, "NumericError")
       \* n, m = cc.shape
       ELSE IF Len(cc.shape) # 2 THEN Raise(w, "ValueError")
       \* raise CanteraError(...): the module binds no name CanteraError
       ELSE IF cc.shape[2] # 2 THEN Raise(w, "NameError")
       ELSE LET cc1 == [cc.rows EXCEPT ![1][2] = ToDouble(omega)]
            IN Func1__init__(w, self, 1, cc.shape[1] - 1,
                             ravel(transpose(cc1)), ok)

\* Fourier(omega, c)
Fourier(w, omega, c, ok) ==
    LET w1 == Allocate(w, "Fourier")
    IN Fourier__init__(w1, w1.ret, omega, c, ok)

\* Arrhenius.__init__(self, c)
Arrhenius__init__(w, self, c, ok) ==
    LET cc == asarray2(c)
    IN IF cc.err THEN Raise(w, "NumericError")
       \* n, m = cc.shape
       ELSE IF Len(cc.shape) # 2 THEN Raise(w, "ValueError")
       \* raise CanteraError(...): the module binds no name CanteraError
       ELSE IF cc.shape[2] # 3 THEN Raise(w, "NameError")
       ELSE Func1__init__(w, self, 3, cc.shape[1], ravel(cc.rows), ok)

\* Arrhenius(c)
Arrhenius(w, c, ok) ==
    LET w1 == Allocate(w, "Arrhenius")
    IN Arrhenius__init__(w1, w1.ret, c, ok)

\* f.func_id() on an operand known to be a Func1 instance
func_id(w, f) == w.heap[f.v].func_id

\* An int or a float has no attribute func_id.
HasFuncId(f) == f.kind = "func"

\* SumFunction.__init__ registering the combination without storing f1, f2.
SumFunction__init__NoRefs(w, self, f1, f2, ok) ==
    LET w1 == [w EXCEPT !.heap[self].n = -1]
    IN IF ~HasFuncId(f1) \/ ~HasFuncId(f2) THEN Raise(w1, "AttributeError")
       ELSE LET w2 == func_newcombo(w1, 20, func_id(w1, f1), func_id(w1, f2), ok)
            IN IF w2.exc # "none" THEN w2
               ELSE [w2 EXCEPT !.heap[self].func_id = w2.h, !.ret = self]

\* SumFunction.__init__(self, f1, f2)
SumFunction__init__(w, self, f1, f2, ok) ==
    LET w1 == [w EXCEPT !.heap[self].f1 = f1, !.heap[self].f2 = f2,
                        !.heap[self].n = -1]
    IN IF ~HasFuncId(f1) \/ ~HasFuncId(f2) THEN Raise(w1, "AttributeError")
       ELSE LET w2 == func_newcombo(w1, 20, func_id(w1, f1), func_id(w1, f2), ok)
            IN IF w2.exc # "none" THEN w2
               ELSE [w2 EXCEPT !.heap[self].func_id = w2.h, !.ret = self]

\* SumFunction(f1, f2)
SumFunction(w, f1, f2, ok) ==
    LET w1 == Allocate(w, "SumFunction")
    IN SumFunction__init__(w1, w1.ret, f1, f2, ok)

\* ProdFunction.__init__ registering the combination under the code of a sum.
ProdFunction__init__SumCode(w, self, f1, f2, ok) ==
    LET w1 == [w EXCEPT !.heap[self].f1 = f1, !.heap[self].f2 = f2,
                        !.heap[self].n = -1]
    IN IF ~HasFuncId(f1) \/ ~HasFuncId(f2) THEN Raise(w1, "AttributeError")
       ELSE LET w2 == func_newcombo(w1, 20, func_id(w1, f1), func_id(w1, f2), ok)
            IN IF w2.exc # "none" THEN w2
               ELSE [w2 EXCEPT !.heap[self].func_id = w2.h, !.ret = self]

\* ProdFunction.__init__(self, f1, f2)
ProdFunction__init__(w, self, f1, f2, ok) ==
    LET w1 == [w EXCEPT !.heap[self].f1 = f1, !.heap[self].f2 = f2,
                        !.heap[self].n = -1]
    IN IF ~HasFuncId(f1) \/ ~HasFuncId(f2) THEN Raise(w1, "AttributeError")
       ELSE LET w2 == func_newcombo(w1, 30, func_id(w1, f1), func_id(w1, f2), ok)
            IN IF w2.exc # "none" THEN w2
               ELSE [w2 EXCEPT !.heap[self].func_id = w2.h, !.ret = self]

\* ProdFunction(f1, f2)
ProdFunction(w, f1, f2, ok) ==
    LET w1 == Allocate(w, "ProdFunction")
    IN ProdFunction__init__(w1, w1.ret, f1, f2, ok)

\* RatioFunction.__init__(self, f1, f2)
RatioFunction__init__(w, self, f1, f2, ok) ==
    LET w1 == [w EXCEPT !.heap[self].f1 = f1, !.heap[self].f2 = f2,
                        !.heap[self].n = -1]
    IN IF ~HasFuncId(f1) \/ ~HasFuncId(f2) THEN Raise(w1, "AttributeError")
       ELSE LET w2 == func_newcombo(w1, 40, func_id(w1, f1), func_id(w1, f2), ok)
            IN IF w2.exc # "none" THEN w2
               ELSE [w2 EXCEPT !.heap[self].func_id = w2.h, !.ret = self]

\* RatioFunction(f1, f2)
RatioFunction(w, f1, f2, ok) ==
    LET w1 == Allocate(w, "RatioFunction")
    IN RatioFunction__init__(w1, w1.ret, f1, f2, ok)

\* Func1.__add__(self, other)
Func1__add__(w, self, other, ok1, ok2) ==
    IF IsFloatType(other)
    THEN LET w1 == Const(w, other, ok1)
         IN IF w1.exc # "none" THEN w1
            ELSE SumFunction(w1, PyFunc(self), PyFunc(w1.ret), ok2)
    ELSE SumFunction(w, PyFunc(self), other, ok2)

\* Func1.__radd__ building self + other instead of other + self.
Func1__radd__Swapped(w, self, other, ok1, ok2) ==
    IF IsFloatType(other)
    THEN LET w1 == Const(w, other, ok1)
         IN IF w1.exc # "none" THEN w1
            ELSE SumFunction(w1, PyFunc(self), PyFunc(w1.ret), ok2)
    ELSE SumFunction(w, PyFunc(self), other, ok2)

\* Func1.__radd__(self, other)
Func1__radd__(w, self, other, ok1, ok2) ==
    IF IsFloatType(other)
    THEN LET w1 == Const(w, other, ok1)
         IN IF w1.exc # "none" THEN w1
            ELSE SumFunction(w1, PyFunc(w1.ret), PyFunc(self), ok2)
    ELSE SumFunction(w, other, PyFunc(self), ok2)

\* Func1.__mul__(self, other)
Func1__mul__(w, self, other, ok) == ProdFunction(w, PyFunc(self), other, ok)

\* Func1.__rmul__(self, other)
Func1__rmul__(w, self, other, ok) == ProdFunction(w, other, PyFunc(self), ok)

\* Func1.__div__(self, other)
Func1__div__(w, self, other, ok) == RatioFunction(w, PyFunc(self), other, ok)

\* Func1.__rdiv__(self, other)
Func1__rdiv__(w, self, other, ok) == RatioFunction(w, other, PyFunc(self), ok)

\* ------------------------------------------------- reference counting
\* The instances whose attributes f1 / f2 refer to o.
Referrers(hp, o) == {p \in DOMAIN hp : PyFunc(o) \in {hp[p].f1, hp[p].f2}}

\* An instance no caller variable and no live instance refers to is
\* finalised at once: __del__ runs (an exception it raises is ignored), the
\* instance dies and its own references are dropped, which may finalise the
\* instances it referred to in turn.
RECURSIVE Collect(_, _)
Collect(w, roots) ==
    LET dead == {o \in DOMAIN w.heap \ roots : Referrers(w.heap, o) = {}}
    IN IF dead = {} THEN w
       ELSE LET o == CHOOSE x \in dead : TRUE
                d == Func1__del__(w, o)
                keep == DOMAIN w.heap \ {o}
            IN Collect([d EXCEPT !.exc = w.exc, !.ret = w.ret,
                                 !.heap = [x \in keep |-> w.heap[x]]], roots)

\* -------------------------------------------------------------- inputs
RECURSIVE SeqsUpTo(_, _)
SeqsUpTo(S, k) ==
    IF k = 0 THEN {<<>>}
    ELSE LET shorter == SeqsUpTo(S, k - 1)
         IN shorter \cup {Append(s, x) : s \in shorter, x \in S}

CoeffLists == SeqsUpTo(Scalars, MaxLen)
\* A term tuple of width k holding the consecutive numbers base, base+1, ...,
\* the odd ones given as ints and the even ones as floats.
Term(k, base) ==
    [j \in 1..k |-> IF (base + j - 1) % 2 = 1 THEN PyInt(base + j - 1)
                                             ELSE PyFloat(base + j - 1)]
Terms == {Term(k, base) : k \in 1..MaxWidth, base \in {1, 4}}
TermLists == SeqsUpTo(Terms, MaxTerms)
Operands == Scalars \cup {PyFunc(o) : o \in held}

LeafHandles == {hh \in Handles : created[hh].fn = "func_new"}

\* ------------------------------------------------------------- actions
Status(w) == IF w.exc = "none" THEN "ok" ELSE w.exc

\* The end of an operation: the caller binds the result (if any), whatever
\* became unreferenced is finalised, and the outcome is recorded.
Commit(w, roots, lst) ==
    LET g == Collect(w, roots)
    IN /\ heap' = g.heap
       /\ created' = g.created
       /\ delCount' = g.delCount
       /\ calls' = g.calls
       /\ held' = roots
       /\ last' = [lst EXCEPT !.status = Status(w), !.ret = w.ret]

Bound(w) == held \cup ({w.ret} \ {NoId})

Init ==
    /\ heap = <<>>
    /\ held = {}
    /\ created = <<>>
    /\ delCount = <<>>
    /\ calls = <<>>
    /\ last = NoOp

NewPolynomial ==
    /\ Len(created) < MaxHandles
    /\ Cardinality(LeafHandles) < MaxLeaves
    /\ \E coeffs \in CoeffLists, ok \in BOOLEAN :
         LET w == Polynomial(World, coeffs, ok)
         IN Commit(w, Bound(w), [NoOp EXCEPT !.op = "Polynomial", !.coeffs = coeffs])

NewFourier ==
    /\ Len(created) < MaxHandles
    /\ Cardinality(LeafHandles) < MaxLeaves
    /\ \E omega \in Omegas, c \in TermLists, ok \in BOOLEAN :
         LET w == Fourier(World, omega, c, ok)
         IN Commit(w, Bound(w), [NoOp EXCEPT !.op = "Fourier", !.omega = omega, !.c = c])

NewArrhenius ==
    /\ Len(created) < MaxHandles
    /\ Cardinality(LeafHandles) < MaxLeaves
    /\ \E c \in TermLists, ok \in BOOLEAN :
         LET w == Arrhenius(World, c, ok)
         IN Commit(w, Bound(w), [NoOp EXCEPT !.op = "Arrhenius", !.c = c])

\* Handles an operator may need: one for the combinator, one more when a
\* float operand is promoted first.
Needed(other, promotes) == IF promotes /\ IsFloatType(other) THEN 2 ELSE 1

Add ==
    \E self \in held, other \in Operands, ok1, ok2 \in BOOLEAN :
        /\ Len(created) + Needed(other, TRUE) <= MaxHandles
        /\ LET w == Func1__add__(World, self, other, ok1, ok2)
           IN Commit(w, Bound(w), [NoOp EXCEPT !.op = "__add__", !.self = self, !.other = other])

Radd ==
    \E self \in held, other \in Operands, ok1, ok2 \in BOOLEAN :
        /\ Len(created) + Needed(other, TRUE) <= MaxHandles
        /\ LET w == Func1__radd__(World, self, other, ok1, ok2)
           IN Commit(w, Bound(w), [NoOp EXCEPT !.op = "__radd__", !.self = self, !.other = other])

Mul ==
    \E self \in held, other \in Operands, ok \in BOOLEAN :
        /\ Len(created) + Needed(other, FALSE) <= MaxHandles
        /\ LET w == Func1__mul__(World, self, other, ok)
           IN Commit(w, Bound(w), [NoOp EXCEPT !.op = "__mul__", !.self = self, !.other = other])

Rmul ==
    \E self \in held, other \in Operands, ok \in BOOLEAN :
        /\ Len(created) + Needed(other, FALSE) <= MaxHandles
        /\ LET w == Func1__rmul__(World, self, other, ok)
           IN Commit(w, Bound(w), [NoOp EXCEPT !.op = "__rmul__", !.self = self, !.other = other])

Div ==
    \E self \in held, other \in Operands, ok \in BOOLEAN :
        /\ Len(created) + Needed(other, FALSE) <= MaxHandles
        /\ LET w == Func1__div__(World, self, other, ok)
           IN Commit(w, Bound(w), [NoOp EXCEPT !.op = "__div__", !.self = self, !.other = other])

Rdiv ==
    \E self \in held, other \in Operands, ok \in BOOLEAN :
        /\ Len(created) + Needed(other, FALSE) <= MaxHandles
        /\ LET w == Func1__rdiv__(World, self, other, ok)
           IN Commit(w, Bound(w), [NoOp EXCEPT !.op = "__rdiv__", !.self = self, !.other = other])

\* F(t)
Call ==
    \E self \in held, t \in Times, ok \in BOOLEAN :
        LET w == Func1__call__(World, self, t, ok)
        IN Commit(w, held, [NoOp EXCEPT !.op = "__call__", !.self = self, !.t = t])

\* F.__del__() called by the caller, who keeps the reference
ExplicitDel ==
    \E self \in held :
        /\ delCount[heap[self].func_id] < MaxDel
        /\ LET w == Func1__del__(World, self)
           IN Commit(w, held, [NoOp EXCEPT !.op = "__del__", !.self = self])

\* del F, or F's variable going out of scope
Drop ==
    \E self \in held :
        Commit(World, held \ {self}, [NoOp EXCEPT !.op = "drop", !.self = self])

Next ==
    \/ NewPolynomial
    \/ NewFourier
    \/ NewArrhenius
    \/ Add
    \/ Radd
    \/ Mul
    \/ Rmul
    \/ Div
    \/ Rdiv
    \/ Call
    \/ ExplicitDel
    \/ Drop

Spec == Init /\ [][Next]_vars

\* ================================================================ claims
AddOps == {"__add__", "__radd__"}
MulOps == {"__mul__", "__rmul__"}
DivOps == {"__div__", "__rdiv__"}
Reflected == {"__radd__", "__rmul__", "__rdiv__"}
BinOps == AddOps \cup MulOps \cup DivOps

IsScalar(x) == x.kind \in {"int", "float"}

\* The class and the kernel code of the combinator an operator builds.
ClassOf(op) == IF op \in AddOps THEN "SumFunction"
               ELSE IF op \in MulOps THEN "ProdFunction" ELSE "RatioFunction"
CodeOf(op) == IF op \in AddOps THEN 20 ELSE IF op \in MulOps THEN 30 ELSE 40

\* The operands of the latest operator call in operand order: the reflected
\* forms take the other operand on the left.
LeftOf(l) == IF l.op \in Reflected THEN l.other ELSE PyFunc(l.self)
RightOf(l) == IF l.op \in Reflected THEN PyFunc(l.self) ELSE l.other

\* x is a live constant polynomial: arity 0, sole coefficient s.
IsPromoted(x, s) ==
    /\ x.kind = "func"
    /\ x.v \in DOMAIN heap
    /\ heap[x.v].cls = "Polynomial"
    /\ heap[x.v].n = 0
    /\ Len(heap[x.v].coeffs) = 1
    /\ heap[x.v].coeffs[1].v = s.v

\* The latest operator call, given a scalar, returned the combinator of the
\* right class over self and the promoted scalar, in operand order.
PromotedResult ==
    /\ last.status = "ok"
    /\ last.ret \in DOMAIN heap
    /\ heap[last.ret].cls = ClassOf(last.op)
    /\ IF last.op \in Reflected
       THEN /\ IsPromoted(heap[last.ret].f1, last.other)
            /\ heap[last.ret].f2 = PyFunc(last.self)
       ELSE /\ heap[last.ret].f1 = PyFunc(last.self)
            /\ IsPromoted(heap[last.ret].f2, last.other)

\* C1: multiply, rmultiply, divide and rdivide promote a bare scalar operand
\* (int or float) to a constant polynomial and then succeed, returning the
\* Product / Ratio over self and the promoted leaf in operand order (unless
\* the kernel itself fails).
C1_MulDivPromoteScalars ==
    (last.op \in MulOps \cup DivOps /\ IsScalar(last.other)
         /\ last.status # "EngineFailure")
    => PromotedResult

\* C2: add / radd with a bare scalar (int or float) returns a Sum whose
\* children are self and a Polynomial leaf of arity 0 with coefficients [s],
\* the promoted leaf on the side the scalar was on (unless the kernel itself
\* fails).
C2_AddPromotesScalars ==
    (last.op \in AddOps /\ IsScalar(last.other) /\ last.status # "EngineFailure")
    => PromotedResult

\* The instances that own handle hh.
Owners(hh) == {o \in DOMAIN heap : heap[o].func_id = hh}

\* C3: every handle the kernel issued is passed to func_del exactly once,
\* when its owner's life ends: never twice, never left undestroyed once the
\* owner is gone, and func_del is never called for a handle that was never
\* issued.
C3_EachHandleDestroyedExactlyOnce ==
    /\ \A hh \in Handles :
          /\ delCount[hh] <= 1
          /\ (Owners(hh) = {} => delCount[hh] = 1)
    /\ \A i \in DOMAIN calls :
          calls[i].fn = "func_del" => calls[i].a \in Handles

\* C4: calling a function whose handle has been released raises
\* UseAfterRelease and does not forward the released handle to func_value.
C4_NoEvaluateAfterRelease ==
    (last.op = "__call__" /\ delCount[heap[last.self].func_id] > 0)
    => /\ last.status = "UseAfterRelease"
       /\ \A i \in DOMAIN calls :
             ~(calls[i].fn = "func_value" /\ calls[i].a = heap[last.self].func_id)

\* The handles registered with the kernel under combinator handle hh, at any
\* depth.
RECURSIVE Under(_, _)
Under(cr, hh) ==
    IF cr[hh].fn = "func_newcombo"
    THEN {cr[hh].a, cr[hh].b} \cup Under(cr, cr[hh].a) \cup Under(cr, cr[hh].b)
    ELSE {}

LiveCombinators(hp) ==
    {c \in DOMAIN hp : hp[c].cls \in Combinators /\ hp[c].func_id # NoHandle}

\* C5: whatever references the caller drops, in any order, no handle that a
\* combinator registered with the kernel (at any depth below it) is released
\* while that combinator is alive, and the instance owning it is alive too:
\* every step other than an explicit __del__ call leaves such handles as
\* they were.
C5_ChildrenOutliveCombinator ==
    [][last'.op # "__del__" =>
          \A c \in LiveCombinators(heap') :
             \A k \in Under(created', heap'[c].func_id) :
                /\ \E o \in DOMAIN heap' : heap'[o].func_id = k
                /\ delCount'[k] = IF k \in Handles THEN delCount[k] ELSE 0]_vars

\* C5 witness: the caller has dropped every reference but the root of a tree
\* of depth two, and nothing below the root has been released.
C5_Witness ==
    /\ last.op = "drop"
    /\ \E c \in LiveCombinators(heap) :
          /\ held = {c}
          /\ \E k \in Under(created, heap[c].func_id) :
                created[k].fn = "func_newcombo"
          /\ \A k \in Under(created, heap[c].func_id) :
                delCount[k] = 0 /\ Owners(k) # {} /\ Owners(k) \cap held = {}

AllWidth(c, m) == \A i \in DOMAIN c : Len(c[i]) = m

\* C6: Fourier succeeds when every term of a non-empty list is a 2-tuple and
\* Arrhenius when every term is a 3-tuple (unless the kernel itself fails);
\* with a term of another width construction fails with the module's
\* invalid-coefficients error (CanteraError), no kernel call is made and no
\* instance results.
C6_LeafShapeValidation ==
    (last.op \in {"Fourier", "Arrhenius"} /\ last.c # <<>>) =>
        IF AllWidth(last.c, IF last.op = "Fourier" THEN 2 ELSE 3)
        THEN last.status \in {"ok", "EngineFailure"}
        ELSE /\ last.status = "CanteraError"
             /\ calls = <<>>
             /\ last.ret = NoId

\* The latest operation combined two functions and succeeded.
CombinedFunctions(l) ==
    /\ l.op \in BinOps
    /\ l.other.kind = "func"
    /\ l.status = "ok"

\* C7 as stated: add(F, G) and radd(G, F) -- G the other operand, given
\* first, F the function the method belongs to -- both yield a Sum with
\* children (F, G), registered with F's handle left and G's handle right.
C7_RaddSameOrderAsAdd ==
    (last.op \in AddOps /\ CombinedFunctions(last)) =>
        /\ heap[last.ret].f1 = PyFunc(last.self)
        /\ heap[last.ret].f2 = last.other
        /\ created[heap[last.ret].func_id].a = heap[last.self].func_id
        /\ created[heap[last.ret].func_id].b = heap[last.other.v].func_id

\* C7 amended: add(F, G) yields a Sum with children (F, G); radd(G, F), the
\* reflected form with G the other operand, yields a Sum with children
\* (G, F); in both the kernel combination has code 20, the left child's
\* handle as left handle and the right child's as right handle.
C7_AddRaddOperandOrder ==
    (last.op \in AddOps /\ CombinedFunctions(last)) =>
        /\ heap[last.ret].cls = "SumFunction"
        /\ heap[last.ret].f1 = LeftOf(last)
        /\ heap[last.ret].f2 = RightOf(last)
        /\ created[heap[last.ret].func_id].fn = "func_newcombo"
        /\ created[heap[last.ret].func_id].typ = 20
        /\ created[heap[last.ret].func_id].a = heap[LeftOf(last).v].func_id
        /\ created[heap[last.ret].func_id].b = heap[RightOf(last).v].func_id

\* C7 witness: a reflected add of two different functions succeeded.
C7_Witness ==
    /\ last.op = "__radd__"
    /\ CombinedFunctions(last)
    /\ last.other.v # last.self
    /\ heap[last.other.v].func_id # heap[last.self].func_id

\* The coefficient layout C8 states: the a values in term order, then omega
\* in place of b0, then the remaining b values in term order.
Flattened(omega, c) ==
    [i \in 1..(2 * Len(c)) |->
        IF i <= Len(c) THEN c[i][1].v
        ELSE IF i = Len(c) + 1 THEN omega.v
        ELSE c[i - Len(c)][2].v]

\* C8: for N >= 1 valid (a, b) pairs Fourier makes exactly one kernel call,
\* func_new with kind 1, arity N-1 and the doubles
\* [a0..a(N-1), omega, b1..b(N-1)].
C8_FourierFlattening ==
    (last.op = "Fourier" /\ Len(last.c) >= 1 /\ AllWidth(last.c, 2)) =>
        /\ Len(calls) = 1
        /\ calls[1].fn = "func_new"
        /\ calls[1].typ = 1
        /\ calls[1].n = Len(last.c) - 1
        /\ Len(calls[1].coeffs) = 2 * Len(last.c)
        /\ \A i \in DOMAIN calls[1].coeffs :
              /\ calls[1].coeffs[i].kind = "float"
              /\ calls[1].coeffs[i].v = Flattened(last.omega, last.c)[i]

\* C8 witness: a two-term series with different a values and b0 different
\* from omega was constructed.
C8_Witness ==
    /\ last.op = "Fourier"
    /\ last.status = "ok"
    /\ Len(last.c) = 2
    /\ AllWidth(last.c, 2)
    /\ last.c[1][1].v # last.c[2][1].v
    /\ last.c[1][2].v # last.omega.v
    /\ last.ret \in held

\* C9: an operator applied to two functions (when the kernel does not fail)
\* returns a new instance of the operator's combinator class with a handle
\* the kernel had not issued before and no other instance owns, registered
\* by exactly one func_newcombo call with code 20 / 30 / 40 and the operands'
\* handles as (left, right); its children are the operand instances
\* themselves, and every instance that existed before is exactly as it was.
C9_CompositionIsPure ==
    [][(last'.op \in BinOps /\ last'.other.kind = "func") =>
          /\ last'.status \in {"ok", "EngineFailure"}
          /\ \A o \in DOMAIN heap : o \in DOMAIN heap' /\ heap'[o] = heap[o]
          /\ last'.status = "ok" =>
                /\ last'.ret \notin DOMAIN heap
                /\ DOMAIN heap' = DOMAIN heap \cup {last'.ret}
                /\ heap'[last'.ret].cls = ClassOf(last'.op)
                /\ heap'[last'.ret].n = -1
                /\ heap'[last'.ret].f1 = LeftOf(last')
                /\ heap'[last'.ret].f2 = RightOf(last')
                /\ heap'[last'.ret].func_id \notin Handles
                /\ \A o \in DOMAIN heap : heap[o].func_id # heap'[last'.ret].func_id
                /\ calls' = <<created'[heap'[last'.ret].func_id]>>
                /\ calls'[1].fn = "func_newcombo"
                /\ calls'[1].typ = CodeOf(last'.op)
                /\ calls'[1].a = heap[LeftOf(last').v].func_id
                /\ calls'[1].b = heap[RightOf(last').v].func_id]_vars

\* C9 witness: a product was built whose left child is an existing
\* combinator, which is still the tree it was.
C9_Witness ==
    /\ last.op = "__mul__"
    /\ CombinedFunctions(last)
    /\ heap[last.self].cls \in Combinators
    /\ heap[last.ret].f1 = PyFunc(last.self)
    /\ heap[last.ret].f2 = last.other
    /\ heap[last.other.v].cls \in Leaves

\* C10: a function's arity is -1 exactly when it is a combinator; every
\* constructed leaf has arity >= 0 and no leaf is registered with the kernel
\* under a negative arity.
C10_ArityInvariant ==
    /\ \A o \in DOMAIN heap :
          /\ (heap[o].n = -1) <=> (heap[o].cls \in Combinators)
          /\ heap[o].cls \in Leaves => heap[o].n >= 0
    /\ \A hh \in Handles :
          created[hh].fn = "func_new" => created[hh].n >= 0

====
